---- MODULE Spec2Model ----
(***************************************************************************)
(* Model of the fridday conversational backend: the message lifecycle      *)
(* (start_message_processing, the background task, update_message,         *)
(* update_message_with_profile) over the "conversations" table, and the    *)
(* query router.                                                           *)
(*                                                                         *)
(* Texts are sequences of word tokens.  The handlers are asyncio           *)
(* coroutines: the store client is synchronous, so a handler runs without  *)
(* interruption up to its next await (an LLM call or the reflection        *)
(* workflow), and each action below is one such uninterrupted segment.     *)
(***************************************************************************)
EXTENDS Integers, Sequences, FiniteSets, TLC

VARIABLES conversations, procs, calls, storeFailures, writes, response, owner,
          chat_sessions,
          user_input, llm_reply, route_result, llm_invocations

vars == <<conversations, procs, calls, storeFailures, writes, response, owner,
          chat_sessions,
          user_input, llm_reply, route_result, llm_invocations>>

lifecycleVars ==
  <<conversations, procs, calls, storeFailures, writes, response, owner,
    chat_sessions>>
routerVars == <<user_input, llm_reply, route_result, llm_invocations>>

----------------------------------------------------------------------------
(* Bounds *)

MaxCalls == 2
MaxStoreFailures == 1
MaxWords == 3
\* synchronous turns (chat calls) in one behaviour
MaxTurns == 1
\* tokens that one word of a modelled text stands for
WordTokens == 700

----------------------------------------------------------------------------
(* Texts *)

\* str.lower() on one token
Lower(tok) ==
  CASE tok = "Obrigado" -> "obrigado"
    [] tok = "Analisar" -> "analisar"
    [] tok = "Additional" -> "additional"
    [] tok = "REACT" -> "react"
    [] tok = "DIRECT" -> "direct"
    [] OTHER -> tok

\* str.upper() on one token
Upper(tok) ==
  CASE tok = "react" -> "REACT"
    [] tok = "direct" -> "DIRECT"
    [] tok = "reactive" -> "REACTIVE"
    [] tok = "talvez" -> "TALVEZ"
    [] OTHER -> tok

LowerText(text) == [i \in 1..Len(text) |-> Lower(text[i])]
UpperText(text) == [i \in 1..Len(text) |-> Upper(text[i])]

\* "kw in tok" for single tokens: tok contains kw as a substring
ProperSubstrings ==
  { <<"analisaremos", "analisar">>, <<"REACTIVE", "REACT">>,
    <<"additional", "add">> }

TokenContains(tok, kw) == tok = kw \/ <<tok, kw>> \in ProperSubstrings

\* "kw in text" for a keyword without spaces: it lies inside one token
TextContains(text, kw) == \E i \in 1..Len(text) : TokenContains(text[i], kw)

Take(s, n) == SubSeq(s, 1, IF n < Len(s) THEN n ELSE Len(s))

\* python s[-n:]
LastN(s, n) ==
  IF n = 0 \/ n >= Len(s) THEN s ELSE SubSeq(s, Len(s) - n + 1, Len(s))

B(f) == IF f THEN 1 ELSE 0

----------------------------------------------------------------------------
(* The conversations table *)

Users == {"u1", "u2"}
Terminal == {"complete", "failed"}

UserUtterances == { <<"olá">>, <<"Analisar", "mercado">> }
\* what the LLM answers to a generation prompt and to a revision prompt
Drafts == { <<"resposta">> }
Revisions == { <<"resposta", "revista">> }
LLMReplies == Drafts \cup Revisions
Critiques == { <<"adequada">>, <<"Additional", "examples">> }
ContextLimits == {2}
Callers == {"u1"}

Row(u, s, r, c, st) ==
  [user_id |-> u, session_id |-> s, role |-> r, content |-> c,
   status |-> st, reflection_steps |-> <<>>]

\* the chat_sessions table; updates counts the update requests that
\* matched the row, updated_at the values written to that column since the
\* row was created
InitialSessions ==
  { [id |-> "s1", user_id |-> "u1", updates |-> 0, updated_at |-> 0],
    [id |-> "s2", user_id |-> "u2", updates |-> 0, updated_at |-> 0] }

\* the uuid4 of the session created by the c-th call
SessionNames == <<"n1", "n2", "n3", "n4">>

\* rows are keyed by id; ids are handed out in creation order
InitialTable(utt) ==
  <<Row("u1", "s1", "user", utt, "complete"),
    Row("u1", "s1", "assistant", <<>>, "pending"),
    Row("u2", "s2", "assistant", <<>>, "pending")>>

\* ids a request may name: 0 is an id no row has
RequestIds == {0, 2, 3}

\* .select("*").eq("id", id).eq("user_id", u).single()
Owned(table, id, u) == id \in DOMAIN table /\ table[id].user_id = u

\* .update({"status": st}).eq("id", id)
WriteStatus(table, id, st) ==
  IF id \in DOMAIN table THEN [table EXCEPT ![id].status = st] ELSE table

\* .update({"status": st, "content": c}).eq("id", id)
WriteStatusContent(table, id, st, c) ==
  IF id \in DOMAIN table
  THEN [table EXCEPT ![id].status = st, ![id].content = c]
  ELSE table

\* .update({"reflection_steps": steps}).eq("id", id)
WriteSteps(table, id, steps) ==
  IF id \in DOMAIN table
  THEN [table EXCEPT ![id].reflection_steps = steps]
  ELSE table

\* .eq("session_id", s).eq("user_id", u).order("created_at").limit(n)
SessionRows(table, s, u, n) ==
  Take(SelectSeq([i \in 1..Len(table) |-> i],
                 LAMBDA i : table[i].session_id = s /\ table[i].user_id = u),
       n)

ContextOf(table, ids, mid) ==
  LET kept == SelectSeq(ids, LAMBDA i : i # mid)
  IN [k \in 1..Len(kept) |->
        [role |-> table[kept[k]].role, content |-> table[kept[k]].content]]

\* update_message: limit(context_limit), then drop the message itself
UpdateContext(table, s, u, mid, lim) ==
  ContextOf(table, SessionRows(table, s, u, lim), mid)

BackgroundContext_Untrimmed(table, s, u, mid, lim) ==
  ContextOf(table, SessionRows(table, s, u, 2 * lim), mid)

\* background task and update_message_with_profile:
\* limit(2 * context_limit), drop the message itself, keep the last context_limit
BackgroundContext(table, s, u, mid, lim) ==
  LastN(ContextOf(table, SessionRows(table, s, u, 2 * lim), mid), lim)

RECURSIVE LastUserMessage(_)
LastUserMessage(ctx) ==
  IF ctx = <<>> THEN <<>>
  ELSE IF ctx[Len(ctx)].role = "user" THEN ctx[Len(ctx)].content
  ELSE LastUserMessage(SubSeq(ctx, 1, Len(ctx) - 1))

complex_keywords ==
  {"pesquisar", "buscar", "comparar", "analisar",
   "research", "search", "compare", "analyze"}

KeywordRoute(last_user_message) ==
  IF last_user_message # <<>>
     /\ \E kw \in complex_keywords :
          TextContains(LowerText(last_user_message), kw)
  THEN "react" ELSE "direct"

----------------------------------------------------------------------------
(* Store writes.  An effect is the table together with the log of the      *)
(* update attempts made on it so far in the running segment.  The k-th     *)
(* attempt of a segment raises when the flag f[k] is set.                  *)

Flags == [1..2 -> BOOLEAN]

Eff0(table) == [t |-> table, w |-> <<>>]

LogEntry(by, id, st, cols, failed) ==
  [id |-> id, by |-> by, status |-> st, cols |-> cols, ok |-> ~failed]

Fails(eff, f) == f[Len(eff.w) + 1]

\* .update({"content": c, "status": st}).eq("id", id).execute()
Attempt(eff, by, id, st, c, f) ==
  [t |-> IF Fails(eff, f) THEN eff.t ELSE WriteStatusContent(eff.t, id, st, c),
   w |-> Append(eff.w, LogEntry(by, id, st, {"status", "content"}, Fails(eff, f)))]

\* .update({"status": st}).eq("id", id).execute()
AttemptStatus(eff, by, id, st, f) ==
  [t |-> IF Fails(eff, f) THEN eff.t ELSE WriteStatus(eff.t, id, st),
   w |-> Append(eff.w, LogEntry(by, id, st, {"status"}, Fails(eff, f)))]

\* .update({"reflection_steps": steps}).eq("id", id).execute()
AttemptSteps(eff, by, id, steps, f) ==
  [t |-> IF Fails(eff, f) THEN eff.t ELSE WriteSteps(eff.t, id, steps),
   w |-> Append(eff.w, LogEntry(by, id, "", {"reflection_steps"}, Fails(eff, f)))]

LastOk(eff) == eff.w[Len(eff.w)].ok

Failures(w) == Cardinality({k \in 1..Len(w) : ~w[k].ok})

\* owner[id] is the start_message_processing call whose status=processing
\* write the message is waiting under, 0 once a terminal status is written
OwnerAfter(own, w) ==
  [id \in DOMAIN own |->
     IF \E k \in 1..Len(w) :
          w[k].ok /\ w[k].id = id /\ w[k].status \in Terminal
     THEN 0 ELSE own[id]]

\* a flag beyond the attempts the segment makes is not an input
FlagsUsed(f, w) == \A k \in DOMAIN f : f[k] => k <= Len(w)

----------------------------------------------------------------------------
(* Coroutines suspended at an await, and the calls made so far *)

NewProc(kind, call, u, mid, lim, pc, ctx) ==
  [kind |-> kind, call |-> call, user_id |-> u, message_id |-> mid,
   context_limit |-> lim, pc |-> pc, context |-> ctx, exc |-> "none",
   draft_response |-> <<>>, reflection |-> <<>>, final_response |-> <<>>,
   needs_revision |-> FALSE, iteration_count |-> 0, current_steps |-> <<>>,
   path |-> <<>>, user_input |-> <<>>, session_id |-> "",
   conversation_id |-> 0, history |-> <<>>, moving_summary_buffer |-> <<>>,
   metadata |-> {}, route |-> ""]

\* a metadata dict: its keys, and the values of the keys the handlers set
NoMetadata == [keys |-> {}, routing_info |-> "", step_count |-> 0]

\* what a call gave its caller in this step: outcome is "returned",
\* "raised", or "pending" while the handler is suspended at an await
Response(c, op, u, mid, outcome, st, content) ==
  [call |-> c, op |-> op, user_id |-> u, message_id |-> mid,
   outcome |-> outcome, status |-> st, content |-> content,
   reasoning_steps |-> <<>>, session_id |-> "", metadata |-> NoMetadata]

NoResponse == Response(0, "", "", 0, "", "", <<>>)

OpOf(kind) ==
  IF kind = "upd" THEN "update_message" ELSE "update_message_with_profile"

\* the locals of a coroutine that has ended are gone
Ended(p, exc) ==
  [NewProc(p.kind, p.call, p.user_id, p.message_id, p.context_limit,
           "done", <<>>) EXCEPT !.exc = exc]

Step(n, type) == [step |-> n, type |-> type]

\* route = "react" enters the reflection workflow, unless
\* _generate_react_response_for_update finds no user message
EntryPc(ctx) ==
  IF KeywordRoute(LastUserMessage(ctx)) = "react" /\ LastUserMessage(ctx) # <<>>
  THEN "generate" ELSE "llm"

\* the exception of the first segment of a handler: the select of the
\* message, the select of the context, the system prompt
FirstExc(fSel, found, fCtx) ==
  IF fSel THEN "store_error"
  ELSE IF ~found THEN "not_found"
  ELSE IF fCtx THEN "store_error"
  ELSE "prompt_error"

----------------------------------------------------------------------------
(* How each kind of coroutine ends, once its answer or its exception is    *)
(* known: the terminal write and the except blocks around it.              *)

BgCompleteWrite(eff, by, id, answer, f) ==
  Attempt(eff, by, id, "complete", answer, f)

BgFailedWrite(eff, by, id, e, f) ==
  Attempt(eff, by, id, "failed", <<"Processing", "failed:", e>>, f)

\* _process_message_background: final update, except block
BgFinish(eff, by, id, exc, answer, f) ==
  IF exc = "none"
  THEN LET e1 == BgCompleteWrite(eff, by, id, answer, f)
       IN IF LastOk(e1) THEN e1
          ELSE BgFailedWrite(e1, by, id, "store_error", f)
  ELSE BgFailedWrite(eff, by, id, exc, f)

UpdpFailedWrite(eff, by, id, e, f) ==
  Attempt(eff, by, id, "failed", <<"Error:", e>>, f)

\* update_message_with_profile: final update, except block
UpdpFinish(eff, by, id, exc, answer, f) ==
  IF exc = "none"
  THEN LET e1 == Attempt(eff, by, id, "complete", answer, f)
       IN IF LastOk(e1) THEN e1
          ELSE UpdpFailedWrite(e1, by, id, "store_error", f)
  ELSE UpdpFailedWrite(eff, by, id, exc, f)

\* update_message: outer except block
UpdFailedWrite(eff, by, id, f) == AttemptStatus(eff, by, id, "failed", f)

\* update_message: the except block of the LLM call, the final update, the
\* outer except block
UpdFinish(eff, by, id, exc, answer, f) ==
  IF exc = "none"
  THEN LET e1 == Attempt(eff, by, id, "complete", answer, f)
       IN IF LastOk(e1) THEN e1 ELSE UpdFailedWrite(e1, by, id, f)
  ELSE IF exc = "llm_error"
  THEN UpdFailedWrite(Attempt(eff, by, id, "failed", <<"Error:", exc>>, f),
                      by, id, f)
  ELSE UpdFailedWrite(eff, by, id, f)

Finish(kind, eff, by, id, exc, answer, f) ==
  CASE kind = "bg" -> BgFinish(eff, by, id, exc, answer, f)
    [] kind = "updp" -> UpdpFinish(eff, by, id, exc, answer, f)
    [] OTHER -> UpdFinish(eff, by, id, exc, answer, f)

\* the handler returns the UpdateMessageResponse built from the updated row
Returned(eff, exc) == exc = "none" /\ eff.w[1].ok

FinishCall(p, eff, exc) ==
  IF p.kind = "bg" THEN NoResponse
  ELSE IF Returned(eff, exc)
  THEN Response(p.call, OpOf(p.kind), p.user_id, p.message_id, "returned",
                eff.t[p.message_id].status, eff.t[p.message_id].content)
  ELSE Response(p.call, OpOf(p.kind), p.user_id, p.message_id, "raised",
                "", <<>>)

\* the coroutine procs[i] ends with the answer or with the exception exc,
\* after reads failed times failed reads in the segment
End(i, exc, answer, reads) ==
  \E f \in Flags :
    LET p == procs[i]
        eff == Finish(p.kind, Eff0(conversations), p.call, p.message_id,
                      exc, answer, f)
    IN /\ FlagsUsed(f, eff.w)
       /\ storeFailures + reads + Failures(eff.w) <= MaxStoreFailures
       /\ storeFailures' = storeFailures + reads + Failures(eff.w)
       /\ conversations' = eff.t
       /\ writes' = eff.w
       /\ procs' = [procs EXCEPT ![i] = Ended(p, exc)]
       /\ response' = FinishCall(p, eff, exc)
       /\ owner' = OwnerAfter(owner, eff.w)
       /\ UNCHANGED <<calls, chat_sessions, routerVars>>

----------------------------------------------------------------------------
(* start_message_processing *)

\* the handler that forgets to mark the message before it launches the task
StartProcessingWrite_Skipped(eff, by, id, f) ==
  [t |-> eff.t,
   w |-> Append(eff.w, LogEntry(by, id, "processing", {"status"}, FALSE))]

\* the handler whose status write also resets the text of the message
StartProcessingWrite_Resets(eff, by, id, f) ==
  [t |-> IF Fails(eff, f) THEN eff.t
         ELSE WriteStatusContent(eff.t, id, "processing", <<"Processing...">>),
   w |-> Append(eff.w, LogEntry(by, id, "processing", {"status"}, Fails(eff, f)))]

StartProcessingWrite(eff, by, id, f) ==
  AttemptStatus(eff, by, id, "processing", f)

StartFailedWrite(eff, by, id, e, f) ==
  Attempt(eff, by, id, "failed", <<"Error:", e>>, f)

\* the task that runs up to its LLM call as soon as it is created
StartLaunch_Eager(ps, c, u, mid, lim) ==
  Append(ps, NewProc("bg", c, u, mid, lim, "llm", <<>>))

\* asyncio.create_task: the task is created and has not run yet
StartLaunch(ps, c, u, mid, lim) ==
  Append(ps, NewProc("bg", c, u, mid, lim, "begin", <<>>))

StartMessageProcessing(u, mid, lim) ==
  /\ calls < MaxCalls
  /\ \E fSel \in BOOLEAN, f \in Flags :
       LET c == calls + 1
           found == ~fSel /\ Owned(conversations, mid, u)
           e1 == IF found
                 THEN StartProcessingWrite(Eff0(conversations), c, mid, f)
                 ELSE Eff0(conversations)
           ok == found /\ LastOk(e1)
           e2 == IF ok THEN e1
                 ELSE StartFailedWrite(e1, c, mid, FirstExc(fSel, found, TRUE), f)
       IN /\ FlagsUsed(f, e2.w)
          /\ storeFailures + B(fSel) + Failures(e2.w) <= MaxStoreFailures
          /\ storeFailures' = storeFailures + B(fSel) + Failures(e2.w)
          /\ conversations' = e2.t
          /\ writes' = e2.w
          /\ procs' = IF ok THEN StartLaunch(procs, c, u, mid, lim) ELSE procs
          /\ calls' = c
          /\ response' = IF ok
                         THEN Response(c, "start", u, mid, "returned",
                                       "processing", <<>>)
                         ELSE Response(c, "start", u, mid, "raised", "", <<>>)
          /\ owner' = IF ok THEN [owner EXCEPT ![mid] = c]
                      ELSE OwnerAfter(owner, e2.w)
  /\ UNCHANGED <<chat_sessions, routerVars>>

----------------------------------------------------------------------------
(* _process_message_background, up to its first await *)

BgBegin(i) ==
  /\ procs[i].kind = "bg"
  /\ procs[i].pc = "begin"
  /\ \E fSel, fCtx, fPrompt \in BOOLEAN :
       LET p == procs[i]
           found == ~fSel /\ Owned(conversations, p.message_id, p.user_id)
           ctx == BackgroundContext(conversations,
                                    conversations[p.message_id].session_id,
                                    p.user_id, p.message_id, p.context_limit)
       IN /\ fCtx => found
          /\ fPrompt => found /\ ~fCtx
          /\ IF found /\ ~fCtx /\ ~fPrompt
             THEN /\ procs' = [procs EXCEPT ![i].context = ctx,
                                            ![i].pc = EntryPc(ctx)]
                  /\ writes' = <<>>
                  /\ response' = NoResponse
                  /\ UNCHANGED <<conversations, calls, storeFailures, owner,
                                 chat_sessions, routerVars>>
             ELSE End(i, FirstExc(fSel, found, fCtx), <<>>, B(fSel) + B(fCtx))

----------------------------------------------------------------------------
(* update_message and update_message_with_profile, up to their first await *)

UpdateMessage(u, mid, lim) ==
  /\ calls < MaxCalls
  /\ \E fSel, fCtx \in BOOLEAN, f \in Flags :
       LET c == calls + 1
           found == ~fSel /\ Owned(conversations, mid, u)
           e1 == IF found
                 THEN AttemptStatus(Eff0(conversations), c, mid, "processing", f)
                 ELSE Eff0(conversations)
           wrote == found /\ LastOk(e1)
           ok == wrote /\ ~fCtx
           e2 == IF ok THEN e1
                 ELSE UpdFinish(e1, c, mid, FirstExc(fSel, found, TRUE), <<>>, f)
           ctx == UpdateContext(conversations, conversations[mid].session_id,
                                u, mid, lim)
       IN /\ fCtx => wrote
          /\ FlagsUsed(f, e2.w)
          /\ storeFailures + B(fSel) + B(fCtx) + Failures(e2.w) <= MaxStoreFailures
          /\ storeFailures' = storeFailures + B(fSel) + B(fCtx) + Failures(e2.w)
          /\ conversations' = e2.t
          /\ writes' = e2.w
          /\ procs' = IF ok
                      THEN Append(procs, NewProc("upd", c, u, mid, lim, "llm", ctx))
                      ELSE procs
          /\ calls' = c
          /\ response' = Response(c, "update_message", u, mid,
                                  IF ok THEN "pending" ELSE "raised", "", <<>>)
          /\ owner' = OwnerAfter(owner, e2.w)
  /\ UNCHANGED <<chat_sessions, routerVars>>

UpdateMessageWithProfile(u, mid, lim) ==
  /\ calls < MaxCalls
  /\ \E fSel, fCtx, fPrompt \in BOOLEAN, f \in Flags :
       LET c == calls + 1
           found == ~fSel /\ Owned(conversations, mid, u)
           e1 == IF found
                 THEN AttemptStatus(Eff0(conversations), c, mid, "processing", f)
                 ELSE Eff0(conversations)
           wrote == found /\ LastOk(e1)
           ok == wrote /\ ~fCtx /\ ~fPrompt
           e2 == IF ok THEN e1
                 ELSE UpdpFinish(e1, c, mid,
                                 FirstExc(fSel, found, ~wrote \/ fCtx), <<>>, f)
           ctx == BackgroundContext(conversations,
                                    conversations[mid].session_id, u, mid, lim)
       IN /\ fCtx => wrote
          /\ fPrompt => wrote /\ ~fCtx
          /\ FlagsUsed(f, e2.w)
          /\ storeFailures + B(fSel) + B(fCtx) + Failures(e2.w) <= MaxStoreFailures
          /\ storeFailures' = storeFailures + B(fSel) + B(fCtx) + Failures(e2.w)
          /\ conversations' = e2.t
          /\ writes' = e2.w
          /\ procs' = IF ok
                      THEN Append(procs,
                                  NewProc("updp", c, u, mid, lim, EntryPc(ctx), ctx))
                      ELSE procs
          /\ calls' = c
          /\ response' = Response(c, "update_message_with_profile", u, mid,
                                  IF ok THEN "pending" ELSE "raised", "", <<>>)
          /\ owner' = OwnerAfter(owner, e2.w)
  /\ UNCHANGED <<chat_sessions, routerVars>>

----------------------------------------------------------------------------
(* Context memory: ChatbotMemory, a ConversationSummaryBufferMemory fed    *)
(* through its chat_memory.  The buffer is pruned into the summary by      *)
(* save_context only, which ChatbotMemory never calls.                     *)

max_token_limit == 2000

\* llm.get_num_tokens_from_messages(buffer)
RECURSIVE Tokens(_)
Tokens(history) ==
  IF history = <<>> THEN 0
  ELSE Len(Head(history).content) * WordTokens + Tokens(Tail(history))

\* _load_conversation_history: the rows of the session in creation order,
\* user and assistant rows only
LoadConversationHistory(table, s, u) ==
  LET ids == SelectSeq([i \in 1..Len(table) |-> i],
                       LAMBDA i : /\ table[i].session_id = s
                                  /\ table[i].user_id = u
                                  /\ table[i].role \in {"user", "assistant"})
  IN [k \in 1..Len(ids) |->
        [role |-> table[ids[k]].role, content |-> table[ids[k]].content]]

\* the memory that forgets to add the message to its buffer
AddMessage_Dropped(history, role, content) == history

\* chat_memory.add_user_message / chat_memory.add_ai_message
AddMessage(history, role, content) ==
  Append(history, [role |-> role, content |-> content])

\* .insert({...}).execute(): the row gets the next id and the default status
Insert(eff, by, u, s, role, content, f) ==
  [t |-> IF Fails(eff, f) THEN eff.t
         ELSE Append(eff.t, Row(u, s, role, content, "complete")),
   w |-> Append(eff.w, LogEntry(by, IF Fails(eff, f) THEN 0 ELSE Len(eff.t) + 1,
                                "", {"insert"}, Fails(eff, f)))]

\* the insert that files every message as a user message
PersistMessage_AsUser(eff, p, role, content, f) ==
  Insert(eff, p.call, p.user_id, p.session_id, "user", content, f)

\* _persist_message: response.data[0]["id"], or "" when the insert raised
PersistMessage(eff, p, role, content, f) ==
  Insert(eff, p.call, p.user_id, p.session_id, role, content, f)

PersistedId(eff) == IF LastOk(eff) THEN eff.w[Len(eff.w)].id ELSE 0

\* get_memory_variables: load_memory_variables puts the summary, when there
\* is one, before the buffer
MemoryVariables(p) ==
  IF p.moving_summary_buffer # <<>>
  THEN <<[role |-> "system", content |-> p.moving_summary_buffer]>> \o p.history
  ELSE p.history

----------------------------------------------------------------------------
(* The end of a synchronous turn (chat)                                    *)

\* _format_reflection_steps
FormatReflectionSteps(p) ==
  (IF p.draft_response # <<>> THEN <<Step(1, "generation")>> ELSE <<>>)
    \o (IF p.reflection # <<>> THEN <<Step(2, "reflection")>> ELSE <<>>)
    \o <<Step(3, IF p.needs_revision THEN "revision" ELSE "finalization")>>

\* .update({"content": c, "metadata": m, "reflection_steps": steps}).eq("id", id)
WriteFinal(table, id, c, steps) ==
  IF id \in DOMAIN table
  THEN [table EXCEPT ![id].content = c, ![id].reflection_steps = steps]
  ELSE table

AttemptFinal(eff, by, id, c, steps, failed) ==
  [t |-> IF failed THEN eff.t ELSE WriteFinal(eff.t, id, c, steps),
   w |-> Append(eff.w, LogEntry(by, id, "",
                                {"content", "metadata", "reflection_steps"},
                                failed))]

FlagCount(f) == Cardinality({k \in DOMAIN f : f[k]})

NoFlags == [k \in 1..2 |-> FALSE]

\* the **updates of chat's update_session(session.id, user_id): none
NoUpdates == {}

\* the call that removes the row, as delete_session does
UpdateSession_Deletes(sessions, sid, u, cols) ==
  {s \in sessions : ~(s.id = sid /\ s.user_id = u)}

\* update_session: .update(updates).eq("id", sid).eq("user_id", u); cols
\* are the columns of updates
UpdateSession(sessions, sid, u, cols) ==
  { IF s.id = sid /\ s.user_id = u
    THEN [s EXCEPT !.updates = @ + 1,
                   !.updated_at = IF "updated_at" \in cols THEN @ + 1 ELSE @]
    ELSE s : s \in sessions }

\* the metadata dict without its routing decision
ResponseMetadata_NoRouting(p) ==
  [keys |-> p.metadata
              \cup (IF p.pc = "resume"
                    THEN {"step_count", "reasoning_used", "reasoning_steps"}
                    ELSE {}),
   routing_info |-> "",
   step_count |-> IF p.pc = "resume" THEN p.iteration_count ELSE 0]

\* the metadata of the ChatResponse: the dict of the request, to which the
\* react node adds step_count and reasoning_used, both nodes add
\* routing_info, and chat adds routing_info and reasoning_steps
ResponseMetadata(p) ==
  [keys |-> p.metadata \cup {"routing_info"}
              \cup (IF p.pc = "resume"
                    THEN {"step_count", "reasoning_used", "reasoning_steps"}
                    ELSE {}),
   routing_info |-> p.route,
   step_count |-> IF p.pc = "resume" THEN p.iteration_count ELSE 0]

\* the handler that answers although its workflow raised
ChatEnd_Answers(i, eff, f, exc, answer, steps) ==
  LET p == procs[i]
  IN /\ FlagsUsed(f, eff.w)
     /\ storeFailures + FlagCount(f) <= MaxStoreFailures
     /\ storeFailures' = storeFailures + FlagCount(f)
     /\ conversations' = eff.t
     /\ writes' = eff.w
     /\ procs' = [procs EXCEPT ![i] = Ended(p, exc)]
     /\ chat_sessions' = UpdateSession(chat_sessions, p.session_id, p.user_id, NoUpdates)
     /\ response' =
          [Response(p.call, "chat", p.user_id, p.conversation_id,
                    "returned", "", answer)
             EXCEPT !.reasoning_steps = steps,
                    !.session_id = p.session_id,
                    !.metadata = ResponseMetadata(p)]
     /\ UNCHANGED <<calls, owner, routerVars>>

\* chat after its workflow: update_session, whose failure is swallowed, then
\* the ChatResponse; or the except block that re-raises
ChatEnd(i, eff, f, exc, answer, steps) ==
  \E fUpd \in BOOLEAN :
    LET p == procs[i]
    IN /\ fUpd => exc = "none"
       /\ FlagsUsed(f, eff.w)
       /\ storeFailures + FlagCount(f) + B(fUpd) <= MaxStoreFailures
       /\ storeFailures' = storeFailures + FlagCount(f) + B(fUpd)
       /\ conversations' = eff.t
       /\ writes' = eff.w
       /\ procs' = [procs EXCEPT ![i] = Ended(p, exc)]
       /\ chat_sessions' =
            IF exc = "none" /\ ~fUpd
            THEN UpdateSession(chat_sessions, p.session_id, p.user_id, NoUpdates)
            ELSE chat_sessions
       /\ response' =
            IF exc = "none"
            THEN [Response(p.call, "chat", p.user_id, p.conversation_id,
                           "returned", "", answer)
                    EXCEPT !.reasoning_steps = steps,
                           !.session_id = p.session_id,
                           !.metadata = ResponseMetadata(p)]
            ELSE Response(p.call, "chat", p.user_id, p.conversation_id,
                          "raised", "", <<>>)
       /\ UNCHANGED <<calls, owner, routerVars>>

\* generate_react_response after process_with_reasoning: the final update of
\* the placeholder; when it raises, the fallback calls add_ai_message with a
\* keyword it does not take, which raises TypeError.  A store may reject
\* the empty id or match no row with it.
ChatResume(i) ==
  \E f \in Flags, rejects \in BOOLEAN :
    LET p == procs[i]
        steps == FormatReflectionSteps(p)
        e == IF p.exc # "none" THEN Eff0(conversations)
             ELSE AttemptFinal(Eff0(conversations), p.call, p.message_id,
                               p.final_response, steps, f[1] \/ rejects)
        exc == IF p.exc # "none" THEN p.exc
               ELSE IF LastOk(e) THEN "none" ELSE "type_error"
    IN /\ rejects => (p.exc = "none" /\ p.message_id = 0 /\ ~f[1])
       /\ ChatEnd(i, e, f, exc, p.final_response, steps)

----------------------------------------------------------------------------
(* The awaited LLM call of the direct path, and the reflection workflow    *)
(* of the react path                                                       *)

LLMOutcomes(replies) ==
  {[ok |-> TRUE, content |-> r] : r \in replies}
    \cup {[ok |-> FALSE, content |-> <<>>]}

\* await self.llm.ainvoke(lc_messages) returns; the handler runs to its end
LLMReturns(i) ==
  /\ procs[i].pc = "llm"
  /\ \E r \in Drafts : End(i, "none", r, 0)

\* await self.llm.ainvoke(lc_messages) raises
LLMRaises(i) ==
  /\ procs[i].pc = "llm"
  /\ End(i, "llm_error", <<>>, 0)

revision_triggers == {"improve", "better", "missing", "add"}

\* the scan that does not lower-case the critique
NeedsRevision_CaseSensitive(critique) ==
  \E kw \in revision_triggers : TextContains(critique, kw)

NeedsRevision(critique) ==
  \E kw \in revision_triggers : TextContains(LowerText(critique), kw)

\* _update_reflection_steps_in_db does nothing for a run without a message
\* id (the store client is always given); 0 is the empty id
Recording(p) == p.message_id # 0

\* the trace that keeps only its newest step
StepsAfter_Replace(p, steps, new_step) ==
  IF Recording(p) THEN <<new_step>> ELSE steps

\* state["current_steps"].append(new_step)
StepsAfter(p, steps, new_step) ==
  IF Recording(p) THEN Append(steps, new_step) ELSE steps

\* the update that is sent without looking at the message id
UpdateReflectionSteps_Always(eff, p, steps, f) ==
  AttemptSteps(eff, p.call, p.message_id, steps, f)

\* _update_reflection_steps_in_db: after the append, a write whose failure
\* is swallowed
UpdateReflectionSteps(eff, p, steps, f) ==
  IF Recording(p) THEN AttemptSteps(eff, p.call, p.message_id, steps, f)
  ELSE eff

NodeEffect(i, eff, f, np) ==
  /\ FlagsUsed(f, eff.w)
  /\ storeFailures + Failures(eff.w) <= MaxStoreFailures
  /\ storeFailures' = storeFailures + Failures(eff.w)
  /\ conversations' = eff.t
  /\ writes' = eff.w
  /\ procs' = [procs EXCEPT ![i] = np]
  /\ response' = NoResponse
  /\ UNCHANGED <<calls, owner, chat_sessions, routerVars>>

\* the node that gives up when the write of its first step fails
LLMNode_WriteAborts(i, first, second, outcome, f, after) ==
  LET p == procs[i]
      s1 == StepsAfter(p, p.current_steps, first)
      e1 == UpdateReflectionSteps(Eff0(conversations), p, s1, f)
      s2 == StepsAfter(p, s1, second)
      e2 == UpdateReflectionSteps(e1, p, s2, f)
  IN IF outcome.ok /\ (e1.w = <<>> \/ e1.w[1].ok)
     THEN NodeEffect(i, e2, f, [after EXCEPT !.current_steps = s2])
     ELSE NodeEffect(i, e1, f, [p EXCEPT !.current_steps = s1,
                                         !.path = after.path,
                                         !.exc = IF outcome.ok THEN "store_error"
                                                 ELSE "llm_error",
                                         !.pc = "resume"])

\* a node whose LLM call is between two trace steps
LLMNode(i, first, second, outcome, f, after) ==
  LET p == procs[i]
      s1 == StepsAfter(p, p.current_steps, first)
      e1 == UpdateReflectionSteps(Eff0(conversations), p, s1, f)
      s2 == StepsAfter(p, s1, second)
      e2 == UpdateReflectionSteps(e1, p, s2, f)
  IN IF outcome.ok
     THEN NodeEffect(i, e2, f, [after EXCEPT !.current_steps = s2])
     ELSE NodeEffect(i, e1, f, [p EXCEPT !.current_steps = s1,
                                         !.path = after.path,
                                         !.exc = "llm_error",
                                         !.pc = "resume"])

\* the node that forgets to count its LLM invocation
generate_response_NoCount(i) ==
  /\ procs[i].pc = "generate"
  /\ \E o \in LLMOutcomes(Drafts), f \in Flags :
       LLMNode(i, Step(1, "generation_start"), Step(2, "generation"), o, f,
               [procs[i] EXCEPT !.draft_response = o.content,
                                !.path = Append(@, "generate"),
                                !.pc = "reflect"])

generate_response(i) ==
  /\ procs[i].pc = "generate"
  /\ \E o \in LLMOutcomes(Drafts), f \in Flags :
       LLMNode(i, Step(1, "generation_start"), Step(2, "generation"), o, f,
               [procs[i] EXCEPT !.draft_response = o.content,
                                !.iteration_count = @ + 1,
                                !.path = Append(@, "generate"),
                                !.pc = "reflect"])

reflect_on_response(i) ==
  /\ procs[i].pc = "reflect"
  /\ \E o \in LLMOutcomes(Critiques), f \in Flags :
       LLMNode(i, Step(3, "reflection_start"), Step(4, "reflection"), o, f,
               [procs[i] EXCEPT !.reflection = o.content,
                                !.needs_revision = NeedsRevision(o.content),
                                !.path = Append(@, "reflect"),
                                !.pc = IF NeedsRevision(o.content)
                                       THEN "revise" ELSE "finalize"])

revise_response(i) ==
  /\ procs[i].pc = "revise"
  /\ \E o \in LLMOutcomes(Revisions), f \in Flags :
       LLMNode(i, Step(5, "revision_start"), Step(6, "revision"), o, f,
               [procs[i] EXCEPT !.final_response = o.content,
                                !.iteration_count = @ + 1,
                                !.path = Append(@, "revise"),
                                !.pc = "resume"])

\* the graph whose finalize node leads on to revise
finalize_response_ThenRevise(i) ==
  /\ procs[i].pc = "finalize"
  /\ \E f \in Flags :
       LET p == procs[i]
           s1 == StepsAfter(p, p.current_steps, Step(5, "finalization"))
       IN NodeEffect(i, UpdateReflectionSteps(Eff0(conversations), p, s1, f), f,
                     [p EXCEPT !.final_response = p.draft_response,
                               !.current_steps = s1,
                               !.path = Append(@, "finalize"),
                               !.pc = "revise"])

finalize_response(i) ==
  /\ procs[i].pc = "finalize"
  /\ \E f \in Flags :
       LET p == procs[i]
           s1 == StepsAfter(p, p.current_steps, Step(5, "finalization"))
       IN NodeEffect(i, UpdateReflectionSteps(Eff0(conversations), p, s1, f), f,
                     [p EXCEPT !.final_response = p.draft_response,
                               !.current_steps = s1,
                               !.path = Append(@, "finalize"),
                               !.pc = "resume"])

\* await self.workflow.ainvoke(...) returns or raises; the handler runs to
\* its end
Resume(i) ==
  /\ procs[i].pc = "resume"
  /\ IF procs[i].kind = "chat" THEN ChatResume(i)
     ELSE End(i, procs[i].exc, procs[i].final_response, 0)

----------------------------------------------------------------------------
(* The message lifecycle *)

NoReply == [ok |-> FALSE, content |-> <<>>]

RouterIdle ==
  /\ user_input = <<>>
  /\ llm_reply = NoReply
  /\ route_result = "none"
  /\ llm_invocations = 0

Init ==
  /\ conversations \in {InitialTable(utt) : utt \in UserUtterances}
  /\ procs = <<>>
  /\ calls = 0
  /\ storeFailures = 0
  /\ writes = <<>>
  /\ response = NoResponse
  /\ owner = [id \in DOMAIN InitialTable(<<>>) |-> 0]
  /\ chat_sessions = InitialSessions
  /\ RouterIdle

Next ==
  \/ \E u \in Callers, mid \in RequestIds, lim \in ContextLimits :
       StartMessageProcessing(u, mid, lim)
  \/ \E u \in Callers, mid \in RequestIds, lim \in ContextLimits :
       UpdateMessage(u, mid, lim)
  \/ \E u \in Callers, mid \in RequestIds, lim \in ContextLimits :
       UpdateMessageWithProfile(u, mid, lim)
  \/ \E i \in 1..Len(procs) : BgBegin(i)
  \/ \E i \in 1..Len(procs) : LLMReturns(i)
  \/ \E i \in 1..Len(procs) : LLMRaises(i)
  \/ \E i \in 1..Len(procs) : generate_response(i)
  \/ \E i \in 1..Len(procs) : reflect_on_response(i)
  \/ \E i \in 1..Len(procs) : revise_response(i)
  \/ \E i \in 1..Len(procs) : finalize_response(i)
  \/ \E i \in 1..Len(procs) : Resume(i)

\* the steps of the coroutine procs[i]
Run(i) ==
  \/ BgBegin(i)
  \/ LLMReturns(i)
  \/ LLMRaises(i)
  \/ generate_response(i)
  \/ reflect_on_response(i)
  \/ revise_response(i)
  \/ finalize_response(i)
  \/ Resume(i)

Spec == Init /\ [][Next]_vars

\* every coroutine that can run is eventually run: an LLM call returns or
\* raises, and the event loop schedules every task
RunProc(i) == i \in DOMAIN procs /\ Run(i)

FairSpec == Spec /\ \A i \in 1..MaxCalls : WF_vars(RunProc(i))

----------------------------------------------------------------------------
(* The context of a placeholder in a session with a history: the first     *)
(* segment of start_message_processing, of its background task and of      *)
(* update_message_with_profile, over sessions of several lengths.          *)

\* a completed turn of session s1
Turn(utt) ==
  <<Row("u1", "s1", "user", utt, "complete"),
    Row("u1", "s1", "assistant", <<"resposta">>, "complete")>>

\* a turn the client has inserted and not yet had answered
PendingTurn(utt) ==
  <<Row("u1", "s1", "user", utt, "complete"),
    Row("u1", "s1", "assistant", <<>>, "pending")>>

Histories ==
  {<<>>} \cup {Turn(a) : a \in UserUtterances}
         \cup {Turn(a) \o Turn(b) : a, b \in UserUtterances}

\* what was inserted after the placeholder: nothing, a row of another
\* user's session, or the next turn of the same session
LaterRows ==
  { <<>>,
    <<Row("u2", "s2", "assistant", <<>>, "pending")>>,
    PendingTurn(<<"olá">>) }

SessionTables ==
  {h \o PendingTurn(utt) \o t :
     h \in Histories, utt \in UserUtterances, t \in LaterRows}

SessionContextLimits == {1, 2}

\* ids a request may name: 0 is an id no row has
PlaceholderIds(table) ==
  {0} \cup {id \in DOMAIN table : table[id].status = "pending"}

ContextInit ==
  /\ conversations \in SessionTables
  /\ procs = <<>>
  /\ calls = 0
  /\ storeFailures = 0
  /\ writes = <<>>
  /\ response = NoResponse
  /\ owner = [id \in DOMAIN conversations |-> 0]
  /\ chat_sessions = InitialSessions
  /\ RouterIdle

ContextNext ==
  \/ \E u \in Callers, mid \in PlaceholderIds(conversations),
        lim \in SessionContextLimits :
       StartMessageProcessing(u, mid, lim)
  \/ \E u \in Callers, mid \in PlaceholderIds(conversations),
        lim \in SessionContextLimits :
       UpdateMessageWithProfile(u, mid, lim)
  \/ \E i \in 1..Len(procs) : BgBegin(i)

ContextSpec == ContextInit /\ [][ContextNext]_vars

----------------------------------------------------------------------------
(* The query router.  A pattern is a sequence of elements separated by     *)
(* ".*"; an element is a set of alternative phrases between word           *)
(* boundaries; a phrase is a sequence of token classes.  A stem such as    *)
(* obrigad\w* is the class of the words of the vocabulary that begin with  *)
(* it.                                                                     *)

Vocabulary ==
  {"olá", "Obrigado", "como", "vai", "qual", "melhor", "analise",
   "concorrência", "estratégia", "expansão", "vendas"}

Utterances == UNION {[1..n -> Vocabulary] : n \in 0..MaxWords}

RouterReplies ==
  { <<"REACT">>, <<"DIRECT">>, <<"react">>, <<"talvez">>, <<"reactive">> }

W(words) == {<<words>>}
Ph(w1, w2) == <<{w1}, {w2}>>
Ph3(w1, w2, w3) == <<{w1}, {w2}, {w3}>>

direct_patterns ==
  << <<W({"olá", "oi", "hello", "hi"})>>,
     << {<<{"se"}, {"apresentar", "apresente", "apresenta"}>>} >>,
     <<W({"obrigado", "obrigada", "thanks", "thank"})>>,
     << {Ph("como", "vai"), Ph3("how", "are", "you")} >>,
     << {Ph3("quem", "é", "você"), Ph3("who", "are", "you")} >>,
     << {Ph3("o", "que", "é"), Ph("what", "is")} >>,
     << {Ph("como", "funciona"), Ph("how", "does")} >>,
     << W({"explica", "explain"}) \cup {Ph("me", "conta"), Ph("tell", "me")} >>,
     << W({"ajuda", "help", "ajudar"}), W({"com", "with"}) >>,
     << W({"qual", "which", "que"}),
        W({"melhor", "better", "recomenda", "recomendação", "recommend"}) >> >>

react_patterns ==
  << << W({"analise", "analisar", "analyze"}),
        W({"competitiva", "concorrência", "concorrentes"})
          \cup {Ph("mercado", "completo"), Ph("market", "analysis")} >>,
     << W({"desenvolva", "desenvolver", "criar", "create"}),
        {Ph("estratégia", "completa"), Ph("plano", "detalhado"),
         Ph("business", "case")} >>,
     << W({"porter", "canvas"}) \cup {Ph("swot", "completa")},
        W({"análise", "framework"}) >>,
     << W({"defina", "definir", "estabelecer"}), W({"kpi", "kpis", "métricas"}),
        W({"completo", "completos", "sistema", "sistemas"}) >>,
     << W({"otimizar", "reestruturar"}),
        {<<{"processo", "processos"}, {"completo"}>>,
         Ph("operação", "inteira")} >>,
     << W({"avalie", "avaliar", "identificar"}),
        {<<{"risco", "riscos"}, {"completo"}>>, Ph3("análise", "de", "risco")} >>,
     << W({"roadmap", "roteiro"}),
        W({"implementação"}) \cup {Ph("transformação", "digital")} >>,
     << W({"plano", "planos", "estratégia"}), W({"entrada"}), W({"mercado"}) >>,
     << W({"plano", "planos", "estratégia"}), W({"expansão", "transformação"}) >> >>

PhraseAt(ph, text, i) ==
  /\ i + Len(ph) - 1 <= Len(text)
  /\ \A k \in 1..Len(ph) : text[i + k - 1] \in ph[k]

RECURSIVE MatchFrom(_, _, _)
MatchFrom(pattern, text, start) ==
  IF pattern = <<>> THEN TRUE
  ELSE \E i \in start..Len(text) :
         \E ph \in Head(pattern) :
           /\ PhraseAt(ph, text, i)
           /\ MatchFrom(Tail(pattern), text, i + Len(ph))

\* re.search(pattern, text)
Search(pattern, text) == MatchFrom(pattern, text, 1)

MatchesAny(patterns, text) ==
  \E k \in 1..Len(patterns) : Search(patterns[k], text)

\* text = user_input.lower().strip(); a token sequence has no outer blanks
Normalize(utterance) == LowerText(utterance)

\* the two pattern lists tested in the other order
QuickPatternRoute_ReactFirst(utterance) ==
  IF MatchesAny(react_patterns, Normalize(utterance)) THEN "react"
  ELSE IF MatchesAny(direct_patterns, Normalize(utterance)) THEN "direct"
  ELSE "none"

\* "none" is Python's None: let the LLM decide
QuickPatternRoute(utterance) ==
  IF MatchesAny(direct_patterns, Normalize(utterance)) THEN "direct"
  ELSE IF MatchesAny(react_patterns, Normalize(utterance)) THEN "react"
  ELSE "none"

\* the fallback that answers react when the classifier call raises
LlmRoute_ErrorReact(reply) ==
  IF ~reply.ok \/ TextContains(UpperText(reply.content), "REACT")
  THEN "react" ELSE "direct"

\* the fallback that looks for REACT without upper-casing the reply
LlmRoute_CaseSensitive(reply) ==
  IF reply.ok /\ TextContains(reply.content, "REACT")
  THEN "react" ELSE "direct"

\* decision = response.content.strip().upper(); "REACT" in decision;
\* except Exception: return "direct"
LlmRoute(reply) ==
  IF reply.ok /\ TextContains(UpperText(reply.content), "REACT")
  THEN "react" ELSE "direct"

\* the router that trusts the quick route only when it says direct
RouteQuery_DirectOnly ==
  /\ route_result = "none"
  /\ LET quick_route == QuickPatternRoute(user_input)
     IN IF quick_route = "direct"
        THEN /\ route_result' = quick_route
             /\ UNCHANGED llm_invocations
        ELSE /\ route_result' = LlmRoute(llm_reply)
             /\ llm_invocations' = llm_invocations + 1
  /\ UNCHANGED <<user_input, llm_reply, lifecycleVars>>

RouteQuery ==
  /\ route_result = "none"
  /\ LET quick_route == QuickPatternRoute(user_input)
     IN IF quick_route # "none"
        THEN /\ route_result' = quick_route
             /\ UNCHANGED llm_invocations
        ELSE /\ route_result' = LlmRoute(llm_reply)
             /\ llm_invocations' = llm_invocations + 1
  /\ UNCHANGED <<user_input, llm_reply, lifecycleVars>>

RouterInit ==
  /\ user_input \in Utterances
  /\ llm_reply \in LLMOutcomes(RouterReplies)
  /\ route_result = "none"
  /\ llm_invocations = 0
  /\ conversations = InitialTable(<<>>)
  /\ procs = <<>>
  /\ calls = 0
  /\ storeFailures = 0
  /\ writes = <<>>
  /\ response = NoResponse
  /\ owner = [id \in DOMAIN InitialTable(<<>>) |-> 0]
  /\ chat_sessions = InitialSessions

RouterNext == RouteQuery

RouterSpec == RouterInit /\ [][RouterNext]_vars

----------------------------------------------------------------------------
(* The synchronous turn: chat and the nodes of its workflow                *)

\* session ids a request may name: "" is the id of no session
RequestSessions == {"s1", "s2", ""}

\* the keys of the metadata a request carries
RequestMetadata == { {"client"} }

\* the lookup that takes any user's session
GetSession_AnyUser(sessions, sid, u, fGet) ==
  IF fGet THEN {} ELSE {s \in sessions : s.id = sid}

\* get_session: .eq("id", sid).eq("user_id", u); an error is swallowed and
\* reads as no session
GetSession(sessions, sid, u, fGet) ==
  IF fGet THEN {} ELSE {s \in sessions : s.id = sid /\ s.user_id = u}

ChatUtterances ==
  { <<"olá">>, <<"estratégia", "expansão">>, <<"vendas">> }

\* chat up to "await self.workflow.ainvoke(state)"
Chat(u, sid, utt) ==
  /\ calls < MaxTurns
  /\ \E fGet, fCreate, fLoad \in BOOLEAN, md \in RequestMetadata :
       LET c == calls + 1
           found == GetSession(chat_sessions, sid, u, fGet) # {}
           session == IF found THEN sid ELSE SessionNames[c]
           loaded == IF fLoad THEN <<>>
                     ELSE LoadConversationHistory(conversations, session, u)
       IN /\ fCreate => ~found
          /\ fLoad => ~fCreate
          /\ storeFailures + B(fGet) + B(fCreate) + B(fLoad) <= MaxStoreFailures
          /\ storeFailures' = storeFailures + B(fGet) + B(fCreate) + B(fLoad)
          /\ calls' = c
          /\ writes' = <<>>
          /\ procs' = IF fCreate THEN procs
                      ELSE Append(procs,
                             [NewProc("chat", c, u, 0, 0, "process_input", <<>>)
                                EXCEPT !.user_input = utt,
                                       !.session_id = session,
                                       !.metadata = md,
                                       !.history = loaded])
          /\ chat_sessions' =
               IF found \/ fCreate THEN chat_sessions
               ELSE chat_sessions
                      \cup {[id |-> session, user_id |-> u, updates |-> 0,
                              updated_at |-> 0]}
          /\ response' = [Response(c, "chat", u, 0,
                                   IF fCreate THEN "raised" ELSE "pending",
                                   "", <<>>)
                             EXCEPT !.session_id = sid]
          /\ UNCHANGED <<conversations, owner, routerVars>>

\* node process_input: memory.add_user_message
process_input(i) ==
  /\ procs[i].pc = "process_input"
  /\ \E f \in Flags :
       LET p == procs[i]
           e == PersistMessage(Eff0(conversations), p, "user", p.user_input, f)
       IN NodeEffect(i, e, f,
                     [p EXCEPT !.history = AddMessage(@, "user", p.user_input),
                               !.conversation_id = PersistedId(e),
                               !.pc = "route_query"])

\* node route_query: the quick route, else the classifier's answer
route_query(i) ==
  /\ procs[i].pc = "route_query"
  /\ \E reply \in LLMOutcomes(RouterReplies) :
       LET p == procs[i]
           quick_route == QuickPatternRoute(p.user_input)
           route == IF quick_route # "none" THEN quick_route
                    ELSE LlmRoute(reply)
       IN /\ quick_route # "none" => reply = NoReply
          /\ NodeEffect(i, Eff0(conversations), NoFlags,
                        [p EXCEPT !.route = route,
                                  !.pc = IF route = "react"
                                         THEN "generate_react_response"
                                         ELSE "generate_direct_response"])

\* the node that appends its answer twice
generate_direct_response_Twice(i) ==
  /\ procs[i].pc = "generate_direct_response"
  /\ \E o \in Drafts, f \in Flags :
       LET p == procs[i]
           e1 == PersistMessage(Eff0(conversations), p, "assistant", o, f)
           e2 == PersistMessage(e1, p, "assistant", o, f)
       IN ChatEnd(i, e2, f, "none", o, <<>>)

\* node generate_direct_response, and chat after it
generate_direct_response(i) ==
  /\ procs[i].pc = "generate_direct_response"
  /\ \E fPrompt \in BOOLEAN, o \in LLMOutcomes(Drafts), f \in Flags :
       LET p == procs[i]
           exc == IF fPrompt THEN "prompt_error"
                  ELSE IF ~o.ok THEN "llm_error" ELSE "none"
           e == IF exc = "none"
                THEN PersistMessage(Eff0(conversations), p, "assistant",
                                    o.content, f)
                ELSE Eff0(conversations)
       IN /\ fPrompt => o = NoReply
          /\ ChatEnd(i, e, f, exc, o.content, <<>>)

\* node generate_react_response up to "await process_with_reasoning": the
\* placeholder whose id the run records its steps on
generate_react_response(i) ==
  /\ procs[i].pc = "generate_react_response"
  /\ \E fPrompt \in BOOLEAN, f \in Flags :
       LET p == procs[i]
           e == PersistMessage(Eff0(conversations), p, "assistant",
                               <<"Processing...">>, f)
       IN IF fPrompt
          THEN f = NoFlags
               /\ ChatEnd(i, Eff0(conversations), f, "prompt_error", <<>>, <<>>)
          ELSE NodeEffect(i, e, f,
                 [p EXCEPT !.history = AddMessage(@, "assistant",
                                                  <<"Processing...">>),
                           !.message_id = PersistedId(e),
                           !.pc = "generate"])

ChatTables ==
  {InitialTable(utt) : utt \in UserUtterances}
    \cup { InitialTable(<<"Analisar", "mercado">>)
             \o <<Row("u1", "s1", "assistant", <<"resposta">>, "complete")>> }
    \cup { InitialTable(<<"olá">>)
             \o <<Row("u1", "s1", "system", <<"como", "vai">>, "complete")>> }

ChatInit ==
  /\ conversations \in ChatTables
  /\ procs = <<>>
  /\ calls = 0
  /\ storeFailures = 0
  /\ writes = <<>>
  /\ response = NoResponse
  /\ owner = [id \in DOMAIN InitialTable(<<>>) |-> 0]
  /\ chat_sessions = InitialSessions
  /\ RouterIdle

ChatNext ==
  \/ \E u \in Callers, sid \in RequestSessions, utt \in ChatUtterances :
       Chat(u, sid, utt)
  \/ \E i \in 1..Len(procs) : process_input(i)
  \/ \E i \in 1..Len(procs) : route_query(i)
  \/ \E i \in 1..Len(procs) : generate_direct_response(i)
  \/ \E i \in 1..Len(procs) : generate_react_response(i)
  \/ \E i \in 1..Len(procs) : generate_response(i)
  \/ \E i \in 1..Len(procs) : reflect_on_response(i)
  \/ \E i \in 1..Len(procs) : revise_response(i)
  \/ \E i \in 1..Len(procs) : finalize_response(i)
  \/ \E i \in 1..Len(procs) : Resume(i)

ChatSpec == ChatInit /\ [][ChatNext]_vars

\* Synchronous turns run one after another on a working store, as the
\* loop of test_chatbot awaits each chat before the next: session s1 holds
\* the pairs of the turns made so far
NoTurnRunning == \A i \in 1..Len(procs) : procs[i].pc = "done"

TurnsInit ==
  /\ conversations \in Histories
  /\ procs = <<>>
  /\ calls = 0
  /\ storeFailures = 0
  /\ writes = <<>>
  /\ response = NoResponse
  /\ owner = [id \in DOMAIN conversations |-> 0]
  /\ chat_sessions = InitialSessions
  /\ RouterIdle

TurnsNext ==
  \/ /\ NoTurnRunning
     /\ \E u \in Callers, sid \in RequestSessions, utt \in ChatUtterances :
          Chat(u, sid, utt)
     /\ storeFailures' = 0
  \/ \E i \in 1..Len(procs) : process_input(i) /\ storeFailures' = 0
  \/ \E i \in 1..Len(procs) : route_query(i) /\ storeFailures' = 0
  \/ \E i \in 1..Len(procs) : generate_direct_response(i) /\ storeFailures' = 0
  \/ \E i \in 1..Len(procs) : generate_react_response(i) /\ storeFailures' = 0
  \/ \E i \in 1..Len(procs) : generate_response(i) /\ storeFailures' = 0
  \/ \E i \in 1..Len(procs) : reflect_on_response(i) /\ storeFailures' = 0
  \/ \E i \in 1..Len(procs) : revise_response(i) /\ storeFailures' = 0
  \/ \E i \in 1..Len(procs) : finalize_response(i) /\ storeFailures' = 0
  \/ \E i \in 1..Len(procs) : Resume(i) /\ storeFailures' = 0

TurnsSpec == TurnsInit /\ [][TurnsNext]_vars

\* the orchestration core: synchronous turns and the message lifecycle on
\* one store
CoreNext == ChatNext \/ Next

CoreSpec == ChatInit /\ [][CoreNext]_vars

----------------------------------------------------------------------------
(* Properties of the message lifecycle *)

Ids == DOMAIN InitialTable(<<>>)

IsBackgroundCall(c) ==
  \E i \in 1..Len(procs) : procs[i].call = c /\ procs[i].kind = "bg"

\* the status of row id after the first k update attempts w of a step that
\* started from table t
RECURSIVE StatusAt(_, _, _, _)
StatusAt(t, w, id, k) ==
  IF k = 0 THEN t[id].status
  ELSE IF w[k].ok /\ w[k].id = id /\ "status" \in w[k].cols THEN w[k].status
  ELSE StatusAt(t, w, id, k - 1)

AllowedTransitions ==
  { <<"pending", "processing">>, <<"processing", "complete">>,
    <<"processing", "failed">> }

\* C1: a message on which start_message_processing succeeded eventually has
\* status complete or failed, however many start calls interleave, provided
\* every LLM call returns or raises and every task is scheduled.
C1_EventuallyTerminal ==
  \A id \in Ids :
    (owner[id] # 0) ~> (conversations[id].status \in Terminal)

\* C2: start_message_processing on a message that exists and belongs to the
\* caller (the store answering) returns; when it returns, the row has status
\* processing, the response says processing, exactly one background task was
\* created for the message and has not run, and no other coroutine ran and no
\* terminal write was made in the call.
C2_StartReturnsProcessing ==
  [][ (calls' = calls + 1 /\ response'.op = "start") =>
        LET mid == response'.message_id
            u == response'.user_id
        IN /\ (Owned(conversations, mid, u) /\ storeFailures' = storeFailures)
                => response'.outcome = "returned"
           /\ response'.outcome = "returned" =>
                /\ response'.status = "processing"
                /\ conversations'[mid].status = "processing"
                /\ Len(procs') = Len(procs) + 1
                /\ procs'[Len(procs')] = NewProc("bg", calls', u, mid,
                                                 procs'[Len(procs')].context_limit,
                                                 "begin", <<>>)
                /\ \A i \in 1..Len(procs) : procs'[i] = procs[i]
                /\ \A k \in 1..Len(writes') :
                     writes'[k].status \notin Terminal ]_vars

C2_Witness ==
  /\ response.op = "start"
  /\ response.outcome = "returned"
  /\ Len(procs) >= 1
  /\ procs[Len(procs)].pc = "begin"
  /\ procs[Len(procs)].call = response.call
  /\ conversations[response.message_id].status = "processing"

\* C3: when the background task ends, whatever step raised, the stored status
\* of its message is complete or failed.
C3_TaskEndsTerminal ==
  [][ \A i \in 1..Len(procs) :
        (procs[i].kind = "bg" /\ procs[i].pc # "done" /\ procs'[i].pc = "done")
          => conversations'[procs[i].message_id].status \in Terminal ]_vars

\* C4: when a terminal write (status complete or failed) of the background
\* task fails, the same write is attempted again before the task gives up.
C4_TerminalWriteRetried ==
  \A k \in 1..Len(writes) :
    (IsBackgroundCall(writes[k].by) /\ writes[k].status \in Terminal
       /\ ~writes[k].ok)
      => \E j \in (k + 1)..Len(writes) :
           /\ writes[j].id = writes[k].id
           /\ writes[j].status = writes[k].status
           /\ writes[j].cols = writes[k].cols

\* C5: every message with status failed has non-empty content.
C5_FailedHasContent ==
  \A id \in Ids :
    conversations[id].status = "failed" => conversations[id].content # <<>>

\* C6: every status change written by the core is pending -> processing,
\* processing -> complete or processing -> failed; in particular no message
\* leaves complete or failed.
C6_StatusTransitions ==
  [][ \A id \in Ids : \A k \in 1..Len(writes') :
        LET a == StatusAt(conversations, writes', id, k - 1)
            b == StatusAt(conversations, writes', id, k)
        IN a # b => <<a, b>> \in AllowedTransitions ]_vars

\* C7: while a message is in processing under a start_message_processing
\* call, every write of its content or of a terminal status is made by the
\* background task that call launched.
C7_OnlyLaunchedTaskWrites ==
  [][ \A k \in 1..Len(writes') :
        LET a == writes'[k]
        IN (/\ a.id \in Ids
            /\ conversations[a.id].status = "processing"
            /\ owner[a.id] # 0
            /\ ("content" \in a.cols \/ a.status \in Terminal))
             => a.by = owner[a.id] ]_vars

\* C8: a call of start_message_processing, update_message or
\* update_message_with_profile with an id that is not a message of the caller
\* raises and leaves status and content of every stored message unchanged.
C8_ForeignIdLeavesStoreUnchanged ==
  [][ (calls' = calls + 1
       /\ ~Owned(conversations, response'.message_id, response'.user_id))
        => /\ response'.outcome = "raised"
           /\ \A id \in Ids :
                /\ conversations'[id].status = conversations[id].status
                /\ conversations'[id].content = conversations[id].content ]_vars

----------------------------------------------------------------------------
(* Properties of the query router *)

\* C9: an utterance that matches a direct-path pattern is routed direct and
\* the LLM fallback is not invoked, also when it matches a reflective-path
\* pattern and whatever the LLM would answer.
C9_DirectPatternWins ==
  (route_result # "none"
   /\ MatchesAny(direct_patterns, LowerText(user_input)))
    => (route_result = "direct" /\ llm_invocations = 0)

C9_Witness ==
  /\ route_result = "direct"
  /\ MatchesAny(direct_patterns, LowerText(user_input))
  /\ MatchesAny(react_patterns, LowerText(user_input))
  /\ llm_reply.ok
  /\ llm_reply.content = <<"REACT">>

\* C10: an utterance that matches a reflective-path pattern and no
\* direct-path pattern is routed react and the LLM fallback is not invoked.
C10_ReactPatternRoutes ==
  (route_result # "none"
   /\ MatchesAny(react_patterns, LowerText(user_input))
   /\ ~MatchesAny(direct_patterns, LowerText(user_input)))
    => (route_result = "react" /\ llm_invocations = 0)

C10_Witness ==
  /\ route_result = "react"
  /\ MatchesAny(react_patterns, LowerText(user_input))
  /\ ~MatchesAny(direct_patterns, LowerText(user_input))
  /\ llm_reply.ok
  /\ llm_reply.content = <<"DIRECT">>

\* the two answers the routing prompt asks for
RecognisedTokens == { <<"REACT">>, <<"DIRECT">> }

\* C11: for an utterance matching neither pattern set, when the LLM fallback
\* raises or returns text that is not one of the two recognised tokens,
\* route_query returns direct (and returns: no exception leaves it).
C11_UnrecognisedReplyRoutesDirect ==
  (route_result # "none"
   /\ QuickPatternRoute(user_input) = "none"
   /\ (~llm_reply.ok \/ UpperText(llm_reply.content) \notin RecognisedTokens))
    => route_result = "direct"

\* C11 as amended: for an utterance matching neither pattern set, when the LLM
\* fallback raises or returns text that does not contain REACT in any letter
\* case, route_query returns direct after one classifier call; route_query
\* always returns one of the two routes.
C11_FallbackDefaultsDirect ==
  /\ route_result \in {"none", "direct", "react"}
  /\ (route_result # "none"
      /\ QuickPatternRoute(user_input) = "none"
      /\ (~llm_reply.ok
            \/ ~TextContains(UpperText(llm_reply.content), "REACT")))
       => (route_result = "direct" /\ llm_invocations = 1)

C11_Witness ==
  /\ route_result = "direct"
  /\ QuickPatternRoute(user_input) = "none"
  /\ user_input # <<>>
  /\ ~llm_reply.ok
  /\ llm_invocations = 1

----------------------------------------------------------------------------
(* Properties of the reflection run and of the synchronous turn *)

IsPrefix(a, b) == Len(a) <= Len(b) /\ SubSeq(b, 1, Len(a)) = a

TypesOf(steps) == [k \in 1..Len(steps) |-> steps[k].type]

Increasing(steps) ==
  \A k \in 1..(Len(steps) - 1) : steps[k].step < steps[k + 1].step

\* the workflow of procs[i] has reached END and process_with_reasoning returns
CompletedRun(p) == p.pc = "resume" /\ p.exc = "none"

Occurrences(seq, set) == Cardinality({k \in 1..Len(seq) : seq[k] \in set})

\* C12: every completed reflection run has recorded a step trace of exactly
\* 6 entries with strictly increasing sequence numbers, on the revise path
\* and on the finalize path alike.
C12_TraceHasSixSteps ==
  \A i \in 1..Len(procs) :
    (CompletedRun(procs[i]) /\ Recording(procs[i]))
      => /\ Len(procs[i].current_steps) = 6
         /\ Increasing(procs[i].current_steps)

\* C12 as amended: the trace a completed run has recorded on its message has
\* exactly 6 entries on the revise path and exactly 5 on the finalize path,
\* numbered 1, 2, ... in order; the reasoning_steps it returns are a
\* separate list of at most 3 entries with increasing numbers.
C12_TraceLengthByPath ==
  \A i \in 1..Len(procs) :
    LET p == procs[i]
    IN (CompletedRun(p) /\ Recording(p))
         => /\ Len(p.current_steps) = IF p.needs_revision THEN 6 ELSE 5
            /\ \A k \in 1..Len(p.current_steps) : p.current_steps[k].step = k
            /\ Increasing(p.current_steps)
            /\ Len(FormatReflectionSteps(p)) <= 3
            /\ Increasing(FormatReflectionSteps(p))

C12_Witness ==
  \E i \in 1..Len(procs) :
    /\ CompletedRun(procs[i])
    /\ Recording(procs[i])
    /\ ~procs[i].needs_revision
    /\ Len(procs[i].current_steps) = 5

\* C13: a completed reflection run returns step_count (iteration_count)
\* equal to the number of answer-generating LLM invocations: 1 on the
\* finalize path, 2 on the revise path, and nothing else.
C13_StepCount ==
  \A i \in 1..Len(procs) :
    LET p == procs[i]
    IN CompletedRun(p)
         => /\ p.iteration_count = Occurrences(p.path, {"generate", "revise"})
            /\ p.iteration_count \in {1, 2}
            /\ p.iteration_count = 1 <=> p.path[Len(p.path)] = "finalize"
            /\ p.iteration_count = 2 <=> p.path[Len(p.path)] = "revise"

C13_Witness ==
  \E i \in 1..Len(procs) :
    /\ CompletedRun(procs[i])
    /\ procs[i].path[Len(procs[i].path)] = "revise"
    /\ procs[i].iteration_count = 2

RevisePath == <<"generate", "reflect", "revise">>
FinalizePath == <<"generate", "reflect", "finalize">>

RevisePathTypes ==
  <<"generation_start", "generation", "reflection_start", "reflection",
    "revision_start", "revision">>
FinalizePathTypes ==
  <<"generation_start", "generation", "reflection_start", "reflection",
    "finalization">>

\* C14: after a synchronous turn routed to react completes, the trace stored
\* on the turn's assistant message and the reasoning_steps returned have the
\* step types generation_start, generation, reflection_start, reflection,
\* then revision_start, revision or finalization, in that order.
C14_SyncTraceTypes ==
  (response.op = "chat" /\ response.outcome = "returned"
   /\ response.reasoning_steps # <<>>)
    => /\ TypesOf(response.reasoning_steps)
            \in {RevisePathTypes, FinalizePathTypes}
       /\ \A k \in 1..Len(writes) :
            (writes[k].id \in DOMAIN conversations
             /\ "reflection_steps" \in writes[k].cols)
              => TypesOf(conversations[writes[k].id].reflection_steps)
                   \in {RevisePathTypes, FinalizePathTypes}

\* C15: the reflection trace stored on a message is append-only during a
\* run: every written value extends the stored one by steps with larger
\* sequence numbers, up to and including the write that ends the turn.
C15_TraceAppendOnly ==
  [][ \A id \in DOMAIN conversations :
        /\ IsPrefix(conversations[id].reflection_steps,
                    conversations'[id].reflection_steps)
        /\ Increasing(conversations'[id].reflection_steps) ]_vars

\* the step types a path of nodes appends
RECURSIVE TypesOfPath(_)
TypesOfPath(path) ==
  IF path = <<>> THEN <<>>
  ELSE TypesOfPath(SubSeq(path, 1, Len(path) - 1))
         \o (CASE path[Len(path)] = "generate" ->
                     <<"generation_start", "generation">>
                [] path[Len(path)] = "reflect" ->
                     <<"reflection_start", "reflection">>
                [] path[Len(path)] = "revise" ->
                     <<"revision_start", "revision">>
                [] OTHER -> <<"finalization">>)

\* C16: a reflection run executes generate, then reflect, then exactly one
\* of revise and finalize, then stops; no node runs twice, and the steps of
\* the trace are in the order in which the nodes ran.
C16_RunOrder ==
  \A i \in 1..Len(procs) :
    LET p == procs[i]
    IN /\ IsPrefix(p.path, RevisePath) \/ IsPrefix(p.path, FinalizePath)
       /\ CompletedRun(p) => p.path \in {RevisePath, FinalizePath}
       /\ p.pc \in {"reflect", "revise", "finalize"}
            => p.path = SubSeq(RevisePath, 1, IF p.pc = "reflect" THEN 1 ELSE 2)
       /\ p.pc = "revise" => p.needs_revision
       /\ p.pc = "finalize" => ~p.needs_revision
       /\ (Recording(p) /\ p.exc = "none")
            => TypesOf(p.current_steps) = TypesOfPath(p.path)
       /\ Recording(p) => IsPrefix(TypesOf(p.current_steps), TypesOfPath(p.path))

C16_Witness ==
  \E i \in 1..Len(procs) :
    /\ CompletedRun(procs[i])
    /\ procs[i].path = FinalizePath
    /\ TypesOf(procs[i].current_steps) = FinalizePathTypes

\* a write of the trace by the run of procs[i] failed in this step
TraceWriteFailed(p, w) ==
  \E k \in 1..Len(w) :
    w[k].by = p.call /\ w[k].cols = {"reflection_steps"} /\ ~w[k].ok

\* C17: a failing write of the step trace does not abort the run: the step
\* is appended to the in-memory trace all the same, the run raises nothing
\* but an LLM error and goes on to its next node, and a run that reaches
\* its end has the full trace, the answer and the step count of its path
\* whatever writes failed.
C17_TraceWriteFailureSwallowed ==
  /\ [][ \A i \in 1..Len(procs) :
           (procs[i].pc \in {"generate", "reflect", "revise", "finalize"}
            /\ TraceWriteFailed(procs[i], writes'))
             => /\ procs'[i].pc # "done"
                /\ procs'[i].exc \in {"none", "llm_error"}
                /\ IsPrefix(procs[i].current_steps, procs'[i].current_steps)
                /\ Len(procs'[i].current_steps) > Len(procs[i].current_steps)
                /\ procs'[i].exc = "none"
                     => /\ Len(procs'[i].path) = Len(procs[i].path) + 1
                        /\ TypesOf(procs'[i].current_steps)
                             = TypesOfPath(procs'[i].path) ]_vars
  /\ [](\A i \in 1..Len(procs) :
          LET p == procs[i]
          IN CompletedRun(p)
               => /\ p.final_response \in LLMReplies
                  /\ ~p.needs_revision => p.final_response = p.draft_response
                  /\ p.needs_revision = NeedsRevision(p.reflection)
                  /\ p.iteration_count = IF p.needs_revision THEN 2 ELSE 1
                  /\ TypesOf(p.current_steps)
                       = IF p.needs_revision THEN RevisePathTypes
                         ELSE FinalizePathTypes)

C17_Witness ==
  \E i \in 1..Len(procs) :
    /\ procs[i].pc = "reflect"
    /\ procs[i].exc = "none"
    /\ TraceWriteFailed(procs[i], writes)
    /\ TypesOf(procs[i].current_steps) = <<"generation_start", "generation">>
    /\ conversations[procs[i].message_id].reflection_steps
         # procs[i].current_steps

\* C18: when an LLM call of a reflection run raises, the run is aborted and
\* the assistant message of the turn ends with status failed, for a run
\* started by chat and for a run started by the background task.
C18_LLMErrorMarksFailed ==
  [][ \A i \in 1..Len(procs) :
        (/\ procs[i].kind \in {"chat", "bg"}
         /\ procs[i].pc = "resume"
         /\ procs[i].exc = "llm_error"
         /\ procs'[i].pc = "done"
         /\ procs[i].message_id \in DOMAIN conversations)
          => conversations'[procs[i].message_id].status = "failed" ]_vars

\* the persisted messages of the session of the turn procs[i]
Persisted(p) == LoadConversationHistory(conversations, p.session_id, p.user_id)

\* C19: whenever the history of a session exceeds the token budget, after
\* the load of its persisted messages or after an append, the memory holds a
\* non-empty summary and its verbatim message list is within the budget and
\* strictly shorter than the full history; the list get_memory_variables
\* returns stays within the budget plus the summary.
C19_MemoryWithinBudget ==
  \A i \in 1..Len(procs) :
    LET p == procs[i]
    IN (p.kind = "chat" /\ p.pc # "done" /\ storeFailures = 0
        /\ Tokens(Persisted(p)) > max_token_limit)
         => /\ p.moving_summary_buffer # <<>>
            /\ Tokens(p.history) <= max_token_limit
            /\ Len(p.history) < Len(Persisted(p))
            /\ Len(MemoryVariables(p)) <= Len(p.history) + 1

\* an insert made by the turn of p failed in the step that logged w
InsertFailed(p, w) ==
  \E k \in 1..Len(w) : w[k].by = p.call /\ w[k].cols = {"insert"} /\ ~w[k].ok

\* an append of the turn of p has failed, in the step that logged w or before
AppendFailedInTurn(p, w) ==
  \/ InsertFailed(p, w)
  \/ p.pc # "process_input" /\ p.conversation_id = 0
  \/ p.pc \in {"generate", "reflect", "revise", "finalize", "resume"}
       /\ p.message_id = 0

\* C20: when the insert of add_user_message or add_ai_message fails, the
\* append does not raise, the buffer still gains the message and the id
\* returned is empty; the turn then completes (no other store call failing
\* and no prompt or LLM call raising), and when the failed insert is the user
\* message's the response carries an empty conversation_id.
C20_AppendFailureSwallowed ==
  [][ \A i \in 1..Len(procs) :
        LET p == procs[i]
            q == procs'[i]
        IN (p.kind = "chat" /\ p.pc # "done" /\ q # p)
             => /\ (InsertFailed(p, writes')
                     /\ p.pc \in {"process_input", "generate_react_response"})
                     => /\ q.pc # "done"
                        /\ Len(q.history) = Len(p.history) + 1
                        /\ p.pc = "process_input" => q.conversation_id = 0
                        /\ p.pc = "generate_react_response" => q.message_id = 0
                /\ (/\ q.pc = "done"
                    /\ AppendFailedInTurn(p, writes')
                    /\ storeFailures' = 1
                    /\ q.exc \notin {"llm_error", "prompt_error"})
                     => /\ response'.outcome = "returned"
                        /\ p.conversation_id = 0 => response'.message_id = 0
      ]_vars

\* the synchronous turn procs[i] ends in this step
TurnEnds(i) ==
  procs[i].kind = "chat" /\ procs[i].pc # "done" /\ procs'[i].pc = "done"

\* C21: a synchronous turn routed to react whose reflection run succeeded
\* returns, and leaves in its session exactly one new assistant message: the
\* placeholder, now carrying the final answer and the trace; no second
\* assistant message is inserted and no "Processing..." text is left, also
\* when the placeholder insert or the final update failed.
C21_OneAssistantMessage ==
  [][ \A i \in 1..Len(procs) :
        LET p == procs[i]
        IN (TurnEnds(i) /\ p.pc = "resume" /\ p.exc = "none")
             => /\ response'.outcome = "returned"
                /\ p.message_id \in DOMAIN conversations'
                /\ conversations'[p.message_id].role = "assistant"
                /\ conversations'[p.message_id].session_id = p.session_id
                /\ conversations'[p.message_id].content = p.final_response
                /\ conversations'[p.message_id].reflection_steps # <<>>
                /\ \A k \in 1..Len(writes') : writes'[k].cols # {"insert"}
      ]_vars

\* C22: a synchronous turn routed to direct ends in the one step that calls
\* the LLM for its answer; it makes exactly one append, of an assistant
\* message carrying that answer and no trace; the reflection workflow has
\* not run for it and no message's trace or content is written.
C22_DirectTurn ==
  [][ \A i \in 1..Len(procs) :
        LET p == procs[i]
            n == Len(conversations)
        IN (p.kind = "chat" /\ p.pc = "generate_direct_response"
            /\ procs'[i] # p)
             => /\ procs'[i].pc = "done"
                /\ p.path = <<>> /\ p.current_steps = <<>>
                /\ p.iteration_count = 0 /\ p.message_id = 0
                /\ \A id \in 1..n : conversations'[id] = conversations[id]
                /\ response'.reasoning_steps = <<>>
                /\ response'.outcome = "raised"
                     => writes' = <<>> /\ conversations' = conversations
                /\ response'.outcome = "returned"
                     => /\ response'.content \in LLMReplies
                        /\ Len(writes') = 1
                        /\ writes'[1].cols = {"insert"}
                        /\ ~writes'[1].ok => conversations' = conversations
                        /\ writes'[1].ok
                             => /\ Len(conversations') = n + 1
                                /\ conversations'[n + 1]
                                     = Row(p.user_id, p.session_id, "assistant",
                                           response'.content, "complete")
      ]_vars

C22_Witness ==
  /\ response.op = "chat"
  /\ response.outcome = "returned"
  /\ response.reasoning_steps = <<>>
  /\ Len(writes) = 1
  /\ writes[1].cols = {"insert"}
  /\ writes[1].ok
  /\ conversations[Len(conversations)].role = "assistant"
  /\ conversations[Len(conversations)].content = response.content

OwnsSession(sessions, sid, u) ==
  \E s \in sessions : s.id = sid /\ s.user_id = u

\* C24: a synchronous turn whose session id names no session of the caller
\* creates a new session owned by the caller; the session of every turn is
\* owned by its caller, every message the turn persists carries the
\* caller's user id and that session's id, and so does the response.
C24_SessionOwnedByCaller ==
  /\ [][ /\ (calls' = calls + 1 /\ response'.op = "chat"
              /\ response'.outcome = "pending")
               => LET q == procs'[Len(procs')]
                  IN /\ q.call = calls' /\ q.user_id = response'.user_id
                     /\ OwnsSession(chat_sessions', q.session_id, q.user_id)
                     /\ ~OwnsSession(chat_sessions, response'.session_id,
                                     q.user_id)
                          => /\ q.session_id
                                  \notin {s.id : s \in chat_sessions}
                             /\ chat_sessions' =
                                  chat_sessions
                                    \cup {[id |-> q.session_id,
                                           user_id |-> q.user_id,
                                           updates |-> 0,
                                           updated_at |-> 0]}
          /\ \A i \in 1..Len(procs) :
               LET p == procs[i]
               IN (p.kind = "chat" /\ p.pc # "done")
                    => /\ \A k \in 1..Len(writes') :
                            (writes'[k].by = p.call /\ writes'[k].ok
                             /\ writes'[k].cols = {"insert"})
                              => /\ conversations'[writes'[k].id].user_id
                                      = p.user_id
                                 /\ conversations'[writes'[k].id].session_id
                                      = p.session_id
                       /\ (TurnEnds(i) /\ response'.outcome = "returned")
                            => /\ response'.session_id = p.session_id
                               /\ response'.user_id = p.user_id
        ]_vars
  /\ [](\A i \in 1..Len(procs) :
          (procs[i].kind = "chat" /\ procs[i].pc # "done")
            => OwnsSession(chat_sessions, procs[i].session_id,
                           procs[i].user_id))

\* a turn that named another user's session has got a session of its own
C24_Witness ==
  /\ response.op = "chat"
  /\ response.outcome = "pending"
  /\ response.session_id = "s2"
  /\ OwnsSession(chat_sessions, "s2", "u2")
  /\ procs[Len(procs)].session_id = SessionNames[1]
  /\ OwnsSession(chat_sessions, SessionNames[1], response.user_id)

\* C27: an exception raised inside a synchronous turn (by the session
\* creation, by the prompt, by an LLM call of the generation, by the
\* workflow) is re-raised by chat: the turn gives its caller a response
\* only when its generation succeeded, and a turn that raises leaves the
\* sessions as they were.
C27_ErrorsReraised ==
  [][ /\ (calls' = calls + 1 /\ response'.op = "chat"
          /\ response'.outcome = "raised")
           => /\ procs' = procs
              /\ chat_sessions' = chat_sessions
              /\ conversations' = conversations
      /\ \A i \in 1..Len(procs) :
           LET p == procs[i]
               q == procs'[i]
           IN TurnEnds(i)
                => /\ response'.call = p.call
                   /\ response'.outcome \in {"returned", "raised"}
                   /\ p.exc # "none" => q.exc = p.exc
                   /\ q.exc # "none"
                        => /\ response'.outcome = "raised"
                           /\ response'.content = <<>>
                           /\ chat_sessions' = chat_sessions
                   /\ response'.outcome = "returned"
                        => /\ q.exc = "none"
                           /\ response'.content \in LLMReplies
                           /\ p.pc = "resume" => CompletedRun(p)
    ]_vars

C27_Witness ==
  /\ response.op = "chat"
  /\ response.outcome = "raised"
  /\ \E i \in 1..Len(procs) :
       /\ procs[i].call = response.call
       /\ procs[i].pc = "done"
       /\ procs[i].exc = "llm_error"
  /\ \A s \in chat_sessions : s.updates = 0

\* the successful writes the step that logged w made to the row id are
\* writes of its status alone
StatusOnly(w, id) ==
  \A k \in 1..Len(w) : (w[k].ok /\ w[k].id = id) => w[k].cols = {"status"}

\* C25: a write of a message's status leaves its content and its trace as
\* they were, so writing the status the message already has changes nothing,
\* however often; the status=processing write of start_message_processing
\* changes the status of its message and no other field of any message.
C25_StatusWriteIdempotent ==
  [][ /\ (response'.op = "start" /\ response'.outcome = "returned")
           => conversations' =
                [conversations EXCEPT ![response'.message_id].status =
                                         "processing"]
      /\ \A id \in DOMAIN conversations :
           StatusOnly(writes', id)
             => /\ conversations'[id].content = conversations[id].content
                /\ conversations'[id].reflection_steps
                     = conversations[id].reflection_steps
                /\ (\A k \in 1..Len(writes') :
                      (writes'[k].ok /\ writes'[k].id = id)
                        => writes'[k].status = conversations[id].status)
                     => conversations'[id] = conversations[id]
    ]_vars

\* the second of two start_message_processing calls for one message has
\* written the status the first one wrote
C25_Witness ==
  /\ response.op = "start"
  /\ response.outcome = "returned"
  /\ response.call = 2
  /\ Len(procs) = 2
  /\ procs[1].pc = "begin"
  /\ procs[1].message_id = response.message_id
  /\ procs[2].message_id = response.message_id
  /\ conversations[response.message_id].status = "processing"

\* the k-th write of the log w is the last successful write it holds for
\* the row id, and it writes a terminal status
LastTerminalWrite(w, k, id) ==
  /\ w[k].ok /\ w[k].id = id /\ w[k].status \in Terminal
  /\ \A m \in (k + 1)..Len(w) : ~(w[m].ok /\ w[m].id = id)

\* C26: when update_message and a background task that ran while it was
\* suspended write the terminal fields of one message, the message has the status and the content of the write
\* made last: after a terminal write of either, the stored status is that
\* write's status and the stored content goes with it (an answer with
\* complete, never the other writer's answer with failed).
C26_LastWriteWins ==
  [][ \A id \in Ids : \A k \in 1..Len(writes') :
        (/\ LastTerminalWrite(writes', k, id)
         /\ \/ /\ IsBackgroundCall(writes'[k].by)
               /\ \E j \in 1..Len(procs) :
                    /\ procs[j].kind = "upd"
                    /\ procs[j].message_id = id
                    /\ procs[j].pc # "done"
            \/ /\ response'.op = "update_message"
               /\ response'.call = writes'[k].by
               /\ \E j \in 1..Len(procs) :
                    /\ procs[j].kind = "bg"
                    /\ procs[j].message_id = id
                    /\ procs[j].call > writes'[k].by)
          => /\ conversations'[id].status = writes'[k].status
             /\ writes'[k].status = "complete"
                  => conversations'[id].content \in LLMReplies
             /\ writes'[k].status = "failed"
                  => conversations'[id].content \notin LLMReplies
    ]_vars

\* the coroutine procs'[i] has loaded its context in this step
ContextLoaded(i) ==
  /\ procs'[i].kind \in {"bg", "updp"}
  /\ procs'[i].pc \in {"llm", "generate"}
  /\ i \in DOMAIN procs => procs[i].pc = "begin"

\* the role and content of the rows ids of the table, in creation order
EntriesOf(table, ids) ==
  LET kept == SelectSeq([i \in 1..Len(table) |-> i], LAMBDA i : i \in ids)
  IN [k \in 1..Len(kept) |->
        [role |-> table[kept[k]].role, content |-> table[kept[k]].content]]

\* the rows of the session of the message id, for its user
SessionOf(table, id) ==
  {j \in DOMAIN table : /\ table[j].session_id = table[id].session_id
                        /\ table[j].user_id = table[id].user_id}

\* C28: for every utterance, the route the background task derives from it
\* is react exactly when the pattern rules of the query router give react.
C28_BackgroundRouteMatchesRouter ==
  (KeywordRoute(user_input) = "react")
    <=> (QuickPatternRoute(user_input) = "react")

\* C29: the context the background task loads is the latest context_limit
\* messages of the session created before the placeholder, and its route is
\* derived from the most recent user message created before the placeholder.
C29_LatestContext ==
  [][\A i \in DOMAIN procs' :
       ContextLoaded(i) /\ procs'[i].kind = "bg" =>
         LET q == procs'[i]
             before == {j \in SessionOf(conversations', q.message_id) :
                          j < q.message_id}
             prior == EntriesOf(conversations', before)
         IN /\ q.context = LastN(prior, q.context_limit)
            /\ (q.pc = "generate")
                 <=> (KeywordRoute(LastUserMessage(prior)) = "react")
    ]_vars

\* C30: the context of the background task and of
\* update_message_with_profile has at most context_limit messages, all of
\* them rows of the session other than the placeholder, in creation order.
C30_ContextBounded ==
  [][\A i \in DOMAIN procs' :
       ContextLoaded(i) =>
         LET q == procs'[i]
             others == SessionOf(conversations', q.message_id)
                         \ {q.message_id}
         IN /\ Len(q.context) <= q.context_limit
            /\ \E ids \in SUBSET others :
                 q.context = EntriesOf(conversations', ids)
    ]_vars

\* a background task holds a context trimmed to its limit, in a session
\* with more rows than the limit besides the placeholder
C30_Witness ==
  \E i \in DOMAIN procs :
    /\ procs[i].kind = "bg"
    /\ procs[i].pc \in {"llm", "generate"}
    /\ Len(procs[i].context) = procs[i].context_limit
    /\ Cardinality(SessionOf(conversations, procs[i].message_id))
         > procs[i].context_limit + 1

\* C31: the LLM fallback returns react only when the LLM's answer is the
\* react token, compared case-insensitively; every other answer yields
\* direct.
C31_ReactOnlyForReactToken ==
  (route_result = "react" /\ QuickPatternRoute(user_input) = "none")
    => (llm_reply.ok /\ UpperText(llm_reply.content) = <<"REACT">>)

\* C31 as amended: when the fallback decides, the route is react exactly
\* when the call returned an answer that contains the react token in any
\* letter case, alone or inside other text; every other answer and every
\* error yields direct.
C31_ReactIffReplyContainsToken ==
  (route_result # "none" /\ QuickPatternRoute(user_input) = "none")
    => (route_result = "react"
          <=> (llm_reply.ok
               /\ llm_reply.content
                    \in { <<"REACT">>, <<"react">>, <<"reactive">> }))

C31_Witness ==
  /\ route_result = "react"
  /\ QuickPatternRoute(user_input) = "none"
  /\ llm_reply.ok
  /\ llm_reply.content = <<"react">>
  /\ llm_invocations = 1

C33_BufferIsSessionLog ==
  [][(Len(procs') = Len(procs) + 1 /\ procs'[Len(procs')].kind = "chat")
       => LET q == procs'[Len(procs')]
              all == EntriesOf(conversations',
                               {j \in DOMAIN conversations' :
                                  /\ conversations'[j].session_id = q.session_id
                                  /\ conversations'[j].user_id = q.user_id})
          IN /\ q.history \in {<<>>, all}
             /\ storeFailures' = storeFailures => q.history = all
    ]_vars

\* C34: a synchronous turn that returns its answer has written to the row
\* of its session an updated_at later than the one the row had.
C34_UpdatedAtAdvanced ==
  [][\A i \in 1..Len(procs) :
       (TurnEnds(i) /\ response'.outcome = "returned")
         => \E s \in chat_sessions, t \in chat_sessions' :
              /\ s.id = procs[i].session_id
              /\ t.id = s.id
              /\ t.updated_at > s.updated_at
    ]_vars

SessionIds(sessions) == {s.id : s \in sessions}

\* C35: no operation of the core deletes a session or a message: over every
\* step of chat, start_message_processing, the background task,
\* update_message and update_message_with_profile, the session ids and the
\* message ids of the store only grow, and a row keeps its owner, session
\* and role.
C35_NothingDeleted ==
  [][/\ SessionIds(chat_sessions) \subseteq SessionIds(chat_sessions')
     /\ DOMAIN conversations \subseteq DOMAIN conversations'
     /\ \A id \in DOMAIN conversations :
          /\ conversations'[id].user_id = conversations[id].user_id
          /\ conversations'[id].session_id = conversations[id].session_id
          /\ conversations'[id].role = conversations[id].role
    ]_vars

\* a turn in a new session has returned and a lifecycle call has written a
\* terminal status
C35_Witness ==
  /\ Cardinality(chat_sessions) = 3
  /\ \E s \in chat_sessions : s.updates = 1
  /\ Len(conversations) >= 5
  /\ \E id \in DOMAIN conversations :
       /\ conversations[id].role = "assistant"
       /\ conversations[id].status = "failed"

\* C36: update_message on a pending assistant message owned by the caller
\* ends in one of two ways: the message is complete with the LLM output as
\* content and the call returns the stored content and status; or the
\* message is failed with an "Error: ..." content and the call raises.  The
\* context sent to the LLM never includes the message being filled in.
C36_UpdateMessageOutcomes ==
  [][/\ (/\ response'.op = "update_message"
          /\ response'.call = 1
          /\ response'.message_id = 2
          /\ response'.outcome \in {"returned", "raised"})
           => LET row == conversations'[2]
              IN \/ /\ response'.outcome = "returned"
                    /\ row.status = "complete"
                    /\ row.content \in LLMReplies
                    /\ response'.content = row.content
                    /\ response'.status = row.status
                 \/ /\ response'.outcome = "raised"
                    /\ row.status = "failed"
                    /\ row.content # <<>>
                    /\ row.content[1] = "Error:"
     /\ (/\ Len(procs') = Len(procs) + 1
          /\ procs'[Len(procs')].kind = "upd")
           => LET q == procs'[Len(procs')]
              IN \E ids \in SUBSET (SessionOf(conversations', q.message_id)
                                       \ {q.message_id}) :
                   q.context = EntriesOf(conversations', ids)
    ]_vars

\* get_conversation_history: the ids of the rows of the session for the
\* user, in creation order
HistoryIds(table, s, u) ==
  SelectSeq([i \in 1..Len(table) |-> i],
            LAMBDA i : table[i].session_id = s /\ table[i].user_id = u)

C38_ProcessingWriteBeforeTask ==
  [][/\ (Len(procs') = Len(procs) + 1 /\ procs'[Len(procs')].kind = "bg")
          => LET q == procs'[Len(procs')]
             IN /\ q.pc = "begin"
                /\ q.context = <<>>
                /\ q.call = calls'
                /\ response'.op = "start"
                /\ response'.outcome = "returned"
                /\ \E k \in 1..Len(writes') :
                     /\ writes'[k].by = q.call
                     /\ writes'[k].id = q.message_id
                     /\ writes'[k].status = "processing"
                     /\ writes'[k].ok
                /\ conversations'[q.message_id].status = "processing"
     /\ \A i \in 1..Len(procs) : \A k \in 1..Len(writes') :
          (procs[i].kind = "bg" /\ writes'[k].by = procs[i].call)
            => /\ writes'[k].status # "processing"
               /\ procs[i].pc # "done"
               /\ procs'[i] # procs[i]
    ]_vars

\* a background task has ended and its message is complete
C38_Witness ==
  \E i \in 1..Len(procs) :
    /\ procs[i].kind = "bg"
    /\ procs[i].pc = "done"
    /\ procs[i].exc = "none"
    /\ conversations[procs[i].message_id].status = "complete"
    /\ \E k \in 1..Len(writes) :
         writes[k].by = procs[i].call /\ writes[k].status = "complete"

\* C39: a reflection run given an empty message id makes no store write
\* during the run, and when its LLM calls succeed it returns a final answer,
\* a step_count and a non-empty reasoning_steps list.
C39_RunWithoutMessageId ==
  [][\A i \in 1..Len(procs) :
       (/\ procs[i].pc \in {"generate", "reflect", "revise", "finalize"}
        /\ procs[i].message_id = 0
        /\ procs'[i] # procs[i])
         => LET q == procs'[i]
            IN /\ writes' = <<>>
               /\ conversations' = conversations
               /\ q.current_steps = <<>>
               /\ CompletedRun(q)
                    => /\ q.final_response \in LLMReplies
                       /\ q.iteration_count \in {1, 2}
                       /\ Len(FormatReflectionSteps(q)) = 3
    ]_vars

C39_Witness ==
  \E i \in 1..Len(procs) :
    /\ CompletedRun(procs[i])
    /\ procs[i].message_id = 0
    /\ procs[i].path = RevisePath
    /\ procs[i].final_response # <<>>
    /\ procs[i].current_steps = <<>>

====
